---- MODULE Spec2Model ----
(***************************************************************************)
(* Chunked-upload API of burak-erp-upload-api: session creation (store /   *)
(* startChunkProcess), chunk ingestion (storeChunk / processChunkUploads), *)
(* reassembly (combineChunks), retrieval (load) and deletion (destroy).    *)
(* Every request is a process whose steps are the synchronous blocks       *)
(* between two awaits of its handler; the steps of concurrent requests     *)
(* interleave as they do on the Node.js event loop.                        *)
(***************************************************************************)
EXTENDS Integers, Sequences, FiniteSets, TLC

\* ---- bounds of the model ----
MaxNames == 2      \* distinct values crypto.randomBytes(10) can draw
MaxSize == 2       \* largest declared file size, in bytes
MaxByte == 2       \* byte values 1..MaxByte (0 is the filler of a file hole)
MaxStores == 2     \* POST /upload requests in one behaviour
MaxChunks == 2     \* PUT /upload/:id requests in one behaviour
MaxReads == 1      \* GET and DELETE /upload/:id requests in one behaviour
MaxOps == 3        \* requests of any kind in one behaviour

\* ---- program constants ----
maxAttempts == 5
MAX_FILE_SIZE == MaxSize
ALLOWED_FILE_TYPES == {"image/png"}

Names == 1..MaxNames
Bytes == 1..MaxByte
Req == {1, 2}
Roots == {"TEMP_DIR", "DIRNAME_TEMP_DIR"}

ExtBin == <<"b", "i", "n">>
ExtBad == <<"b", ".">>
Exts == {ExtBin, ExtBad}
AlnumChars == {"b", "i", "n"}

Offsets == 0..(MaxSize - 1)
Lengths == 1..MaxSize

\* the bytes a client sends for positions off+1 .. off+n of version v of its
\* file; two versions differ in every byte
Slice(v, off, n) == [i \in 1..n |-> ((off + i + v) % MaxByte) + 1]

\* the request bodies of POST /upload: well-formed ones of every size, and one
\* body per rule of the schema that breaks exactly that rule
GoodMeta(n) == [file_name |-> "photo", file_extension |-> ExtBin, file_size |-> n,
                file_mime_type |-> "image/png"]
BadMetas == {[GoodMeta(1) EXCEPT !.file_name = ""],
             [GoodMeta(1) EXCEPT !.file_extension = ExtBad],
             [GoodMeta(1) EXCEPT !.file_size = 0],
             [GoodMeta(1) EXCEPT !.file_mime_type = "text/html"]}
NoMeta == [file_name |-> "", file_extension |-> <<>>, file_size |-> 0,
           file_mime_type |-> ""]

\* a file path below UPLOAD_DIR: `${fileName}.${extension}`
Paths == Names \X Exts
NoPath == <<0, <<>>>>

NoUpload == [_id |-> 0, file_name |-> 0, file_original_name |-> "",
             file_extension |-> <<>>, file_size |-> 0, file_mime_type |-> "",
             file_path |-> NoPath, file_url |-> <<"", NoPath>>]

NoStream == [active |-> FALSE, opened |-> FALSE, detached |-> FALSE,
             path |-> NoPath, pos |-> 0, buf |-> <<>>]

\* a response body without an `offset` field
NoOffset == -1

Idle == [kind |-> "none", pc |-> "idle", meta |-> NoMeta, id |-> NoPath,
         offset |-> 0, length |-> 0, body |-> <<>>,
         attempt |-> 0, err |-> "none", folderName |-> 0, upload |-> NoUpload,
         cupload |-> NoUpload,
         chunkDir |-> <<"", 0>>, chunkFiles |-> <<>>, ws |-> NoStream,
         covered |-> TRUE, sawCompleted |-> FALSE, served |-> <<>>,
         res |-> <<>>, reported |-> NoOffset]

VARIABLES
    aliased,    \* path.join(__dirname, TEMP_DIR) and TEMP_DIR are one directory
    roots,      \* the temp roots that exist on disk
    dirs,       \* staging directories: <<root, name>> -> (chunk file -> bytes)
    finals,     \* files below UPLOAD_DIR: path -> bytes
    db,         \* the uploads collection, in insertion order
    nextId,     \* the next _id the collection assigns
    req,        \* the requests in flight
    ops,        \* requests started so far, per class
    ncombine,   \* history: invocations of combineChunks per record _id
    sent,       \* history: chunks handed to ingestion per record _id
    nsent,      \* history: number of ingestion requests per record _id
    completed,  \* history: record _ids whose reassembly returned normally
    written,    \* history: per record _id, the last payload staged per offset,
                \* the offsets where a write replaced a different payload,
                \* whether a write came after combineChunks was invoked, and
                \* the chunks whose ingestion returned normally
    API_CACHE,  \* the response cache of callAuthService: key -> entry
    now,        \* Date.now()
    mw,         \* the middleware invocations in flight
    nauth       \* middleware invocations started so far

vars == <<aliased, roots, dirs, finals, db, nextId, req, ops,
          ncombine, sent, nsent, completed, written, API_CACHE, now, mw, nauth>>

authVars == <<API_CACHE, now, mw, nauth>>
uploadVars == <<aliased, roots, dirs, finals, db, nextId, req, ops,
                ncombine, sent, nsent, completed, written>>

fsVars == <<roots, dirs, finals>>
histVars == <<ncombine, sent, nsent, completed, written>>

DocIds == 1..MaxStores

\* ---- uploadValidator.ts ----

\* Joi: file_extension string().required().pattern(/^[a-zA-Z0-9]+$/).max(10)
ExtensionOk(e) ==
    /\ Len(e) >= 1
    /\ Len(e) <= 10
    /\ \A i \in 1..Len(e) : e[i] \in AlnumChars

uploadMetadataSchema(m) ==
    /\ m.file_name # ""
    /\ ExtensionOk(m.file_extension)
    /\ m.file_size > 0
    /\ m.file_size <= MAX_FILE_SIZE
    /\ m.file_mime_type \in ALLOWED_FILE_TYPES

\* the `error` of validateUploadMetadata(req.body)
validateUploadMetadata(m) == ~uploadMetadataSchema(m)

\* ---- paths ----

\* the directory a root path resolves to
Phys(root) == IF aliased THEN "TEMP_DIR" ELSE root

\* startChunkProcess: path.join(TEMP_DIR, folderName)
ReservedDir(n) == <<"TEMP_DIR", n>>

\* processChunkUploads / storeChunk: path.join(__dirname, TEMP_DIR, folderName)
ChunkDirOf(n) == <<Phys("DIRNAME_TEMP_DIR"), n>>

\* the decimal digits of `${offset}` in the file name `chunk_${offset}`
RECURSIVE Digits(_)
Digits(n) == IF n < 10 THEN <<n>> ELSE Append(Digits(n \div 10), n % 10)

\* parseInt(file.split('_')[1])
RECURSIVE ParseInt(_)
ParseInt(ds) ==
    IF Len(ds) = 1 THEN ds[1]
    ELSE 10 * ParseInt(SubSeq(ds, 1, Len(ds) - 1)) + ds[Len(ds)]

\* ---- the uploads collection ----

Matches(p) == {i \in 1..Len(db) : db[i].file_path = p}
ByName(n) == {i \in 1..Len(db) : db[i].file_name = n}
ById(d) == {i \in 1..Len(db) : db[i]._id = d}
Min(S) == CHOOSE x \in S : \A y \in S : x <= y

\* Upload.findOne(filter): the first matching document, NoUpload for null
FindOne(S) == IF S = {} THEN NoUpload ELSE db[Min(S)]

\* the collection without the document at index i
RemoveAt(s, i) == [j \in 1..(Len(s) - 1) |-> IF j < i THEN s[j] ELSE s[j + 1]]

\* ---- requests ----

\* what is left of a request once its handler has answered
Done(rq, code) ==
    [Idle EXCEPT !.kind = rq.kind, !.pc = "done", !.id = rq.id,
                 !.covered = rq.covered, !.attempt = rq.attempt,
                 !.err = rq.err, !.upload = rq.upload, !.cupload = rq.cupload,
                 !.ws = rq.ws,
                 !.sawCompleted = rq.sawCompleted, !.served = rq.served,
                 !.res = Append(rq.res, code), !.reported = rq.reported]

Respond(r, rq, code) == req' = [req EXCEPT ![r] = Done(rq, code)]

\* a new request takes the first slot that holds no request in flight
Free(r) == req[r].pc \in {"idle", "done"} /\ ~req[r].ws.active

Begin(r, class, max) ==
    /\ Free(r)
    /\ \A q \in Req : q < r => ~Free(q)
    /\ ops[class] < max
    /\ ops["store"] + ops["chunk"] + ops["read"] < MaxOps
    /\ ops' = [ops EXCEPT ![class] = @ + 1]

At(r, kinds, pc) == req[r].kind \in kinds /\ req[r].pc = pc

\* ---- the auth middlewares and their response cache (uploadValidator.ts) ----

\* middleware invocations, and the span of the clock in units of the TTL
MaxAuth == 2
MaxClock == 2

CACHE_TTL_MS == 5000

\* the invocations that can be in flight together
Mw == 1..2

\* the time that passes between two steps
Ticks == {CACHE_TTL_MS \div 2, CACHE_TTL_MS}

\* the endpoints of the auth service, as strings of one symbol
VerifyTokenEndpoint == <<"/middleware/verify-token">>
AuthorizePermissionEndpoint == <<"/middleware/authorize-permission">>

\* bearer tokens, as strings of characters; a token may hold a colon
NoToken == <<>>
Tokens == {<<"a">>, <<"a", ":">>}

\* the words of an Authorization header after trim() and split(/\s+/)
AuthHeaders ==
    {<<>>, <<"Bearer">>, <<"Basic", <<"a">>>>, <<"Bearer", <<"a">>>>,
     <<"bearer", <<"a", ":">>>>, <<"Bearer", <<"a">>, <<"x">>>>}

\* what an earlier authenticate may have left in req.token
ReqTokens == {NoToken, <<"a">>}

\* a user as the auth service describes it; NoUser is an absent one
NoUser == [role |-> "none"]
Users == {[role |-> "admin"], [role |-> "user"]}

\* the role and the permission a route asks for
RequiredRole == "admin"
PermissionBody == <<"{\"permission\":\"upload\"}">>
NoBody == <<>>

\* an AuthServiceResponse: hasPermission is "true", "false" or absent
NoData == [user |-> NoUser, hasPermission |-> "absent"]
VerifyAnswers == {[user |-> u, hasPermission |-> "absent"] : u \in Users \cup {NoUser}}
PermissionAnswers ==
    {[user |-> NoUser, hasPermission |-> h] : h \in {"true", "false", "absent"}}

\* an invocation: req.user and req.token, the token of its call to the auth
\* service, what callAuthService returned, whether the cache answered and
\* whether it threw, the calls of next() and the responses sent
MwIdle == [kind |-> "none", pc |-> "idle", user |-> NoUser,
           token |-> NoToken, used |-> NoToken, got |-> NoData, hit |-> FALSE,
           threw |-> FALSE, nexts |-> 0, res |-> <<>>]

AuthInit ==
    /\ API_CACHE = <<>>
    /\ now = 0
    /\ mw = [m \in Mw |-> MwIdle]
    /\ nauth = 0

Init ==
    /\ AuthInit
    /\ aliased \in BOOLEAN
    /\ roots = {"TEMP_DIR"}
    /\ dirs = <<>>
    /\ finals = <<>>
    /\ db = <<>>
    /\ nextId = 1
    /\ req = [r \in Req |-> Idle]
    /\ ops = [c \in {"store", "chunk", "read"} |-> 0]
    /\ ncombine = [d \in DocIds |-> 0]
    /\ sent = [d \in DocIds |-> {}]
    /\ nsent = [d \in DocIds |-> 0]
    /\ completed = {}
    /\ written = [d \in DocIds |-> [last |-> <<>>, replaced |-> {}, late |-> FALSE, acked |-> {}]]

\* ---- store (controllers/imageUploadController.ts and its older variant) ----

\* POST /upload up to `await fs.ensureDir(TEMP_DIR)` inside startChunkProcess;
\* the older handler does not validate
Store(r, kind, m) ==
    /\ Begin(r, "store", MaxStores)
    /\ LET rq == [Idle EXCEPT !.kind = kind, !.meta = m]
       IN IF kind = "store" /\ validateUploadMetadata(m)
          THEN Respond(r, rq, "400")
          ELSE req' = [req EXCEPT ![r] = [rq EXCEPT !.pc = "ensure"]]
    /\ UNCHANGED <<authVars, aliased, fsVars, db, nextId, histVars>>

\* fs.ensureDir(TEMP_DIR) resolves
EnsureTemp(r) ==
    /\ At(r, {"store", "storeLegacy"}, "ensure")
    /\ roots' = roots \cup {"TEMP_DIR"}
    /\ req' = [req EXCEPT ![r].pc = "mkdir"]
    /\ UNCHANGED <<authVars, aliased, dirs, finals, db, nextId, ops, histVars>>

\* what fs.mkdir(path.join(TEMP_DIR, folderName)) answers; io is a fault of
\* the storage layer
MkdirOutcome(n, io) ==
    IF io THEN "EIO"
    ELSE IF "TEMP_DIR" \notin roots THEN "ENOENT"
    ELSE IF ReservedDir(n) \in DOMAIN dirs THEN "EEXIST"
    ELSE "ok"

\* a catch that ignores every error of mkdir
IsCollisionAnyError(code) == TRUE

\* the catch of startChunkProcess ignores only "already exists"
IsCollision(code) == code = "EEXIST"

\* one iteration of the do-while of startChunkProcess
Mkdir(r) ==
    /\ At(r, {"store", "storeLegacy"}, "mkdir")
    /\ \E n \in Names, io \in BOOLEAN :
        LET out == MkdirOutcome(n, io)
            rq == [req[r] EXCEPT !.attempt = @ + 1, !.err = out]
        IN IF out = "ok"
           THEN /\ dirs' = (ReservedDir(n) :> <<>>) @@ dirs
                /\ req' = [req EXCEPT ![r] = [rq EXCEPT !.pc = "save", !.folderName = n]]
           ELSE /\ dirs' = dirs
                /\ IF IsCollision(out) /\ rq.attempt < maxAttempts
                   THEN req' = [req EXCEPT ![r] = rq]
                   ELSE Respond(r, rq, "500")
    /\ UNCHANGED <<authVars, aliased, roots, finals, db, nextId, ops, histVars>>

\* the document `new Upload({...})` of the two store handlers
NewUpload(kind, n, m) ==
    [_id |-> nextId, file_name |-> n, file_original_name |-> m.file_name,
     file_extension |-> m.file_extension, file_size |-> m.file_size,
     file_mime_type |-> m.file_mime_type, file_path |-> <<n, m.file_extension>>,
     file_url |-> <<IF kind = "store" THEN "/uploads" ELSE "uploads",
                    <<n, m.file_extension>>>>]

\* `await upload.save()` of store and the response; dbok is the store's answer
Save(r) ==
    /\ At(r, {"store", "storeLegacy"}, "save")
    /\ \E dbok \in BOOLEAN :
        IF dbok
        THEN /\ db' = Append(db, NewUpload(req[r].kind, req[r].folderName, req[r].meta))
             /\ nextId' = nextId + 1
             /\ Respond(r, [req[r] EXCEPT !.upload =
                                NewUpload(req[r].kind, req[r].folderName, req[r].meta)],
                        IF req[r].kind = "store" THEN "201" ELSE "200")
        ELSE /\ UNCHANGED <<db, nextId>>
             /\ Respond(r, req[r], "500")
    /\ UNCHANGED <<authVars, aliased, fsVars, ops, histVars>>

\* ---- storeChunk and processChunkUploads ----

\* how a handler reports a thrown error, and a normal end: the older storeChunk
\* answers 500 and 200, processChunkUploads throws and returns true
Thrown(kind) == IF kind = "chunkHelper" THEN "throw" ELSE "500"
Returned(kind) == IF kind = "chunkHelper" THEN "true" ELSE "200"

\* a write stream that has nothing left to do to the file system
Settled(ws) == [ws EXCEPT !.active = ws.active /\ ~(ws.opened /\ ws.buf = <<>>)]

Fail(r, rq) ==
    req' = [req EXCEPT ![r] = Done([rq EXCEPT !.ws = Settled(rq.ws)], Thrown(rq.kind))]

\* storeChunk of controllers/imageUploadController.ts: the header check, then
\* processChunkUploads({fileId, offset, ...}) with one argument, whose
\* req.headers is undefined, so that reading req.headers['upload-offset'] throws
\* a TypeError before any lookup; its message holds no 'not found'
StoreChunk(r, id, headersOk) ==
    /\ Begin(r, "chunk", MaxChunks)
    /\ Respond(r, [Idle EXCEPT !.kind = "chunk", !.id = id],
               IF headersOk THEN "500" ELSE "400")
    /\ UNCHANGED <<authVars, aliased, fsVars, db, nextId, histVars>>

\* the older storeChunk and processChunkUploads(req, id) up to
\* `await Upload.findOne({ file_path: id })`
Chunk(r, kind, id, off, len, body, isBuffer) ==
    /\ Begin(r, "chunk", MaxChunks)
    /\ LET rq == [Idle EXCEPT !.kind = kind, !.id = id, !.offset = off,
                              !.length = len, !.body = body]
       IN IF isBuffer
          THEN req' = [req EXCEPT ![r] = [rq EXCEPT !.pc = "find"]]
          ELSE Fail(r, rq)
    /\ UNCHANGED <<authVars, aliased, fsVars, db, nextId, histVars>>

\* a write that keeps a chunk file that exists
WriteChunkKeepFirst(files, off, body) == files @@ (Digits(off) :> body)

\* fs.writeFileSync(path.join(chunkDir, `chunk_${offset}`), req.body)
WriteChunk(files, off, body) == (Digits(off) :> body) @@ files

\* the completion test of both ingestion paths; length is the Upload-Length header
AllUploaded(off, body, length) == off + Len(body) >= length

\* the chunk a request stages: its offset and its payload
Staged(rq) == [off |-> rq.offset, data |-> rq.body]

\* the lookup resolves; the block from it to the next await stages the chunk
\* and may enter combineChunks, which runs up to its own `await Upload.findOne`.
\* The older storeChunk starts an unawaited fs.mkdir when the directory is
\* missing: mkdirFirst says whether it lands before writeFileSync opens the file.
\* processChunkUploads tests `!fs.exists(chunkDir)`, a promise, and so never
\* creates the directory.
ChunkFind(r) ==
    /\ At(r, {"chunkLegacy", "chunkHelper"}, "find")
    /\ LET rq0 == req[r]
           up == FindOne(Matches(rq0.id))
           cd == ChunkDirOf(up.file_name)
           rq == [rq0 EXCEPT !.upload = up, !.chunkDir = cd,
                             !.sawCompleted = up._id \in completed]
           made == (cd :> <<>>) @@ dirs
           staged(d) == [d EXCEPT ![cd] = WriteChunk(@, rq.offset, rq.body)]
           go(d) ==
               /\ dirs' = staged(d)
               /\ written' = [written EXCEPT ![up._id] =
                                [last |-> (rq.offset :> rq.body) @@ @.last,
                                 replaced |-> @.replaced \cup
                                    (IF /\ Digits(rq.offset) \in DOMAIN d[cd]
                                        /\ d[cd][Digits(rq.offset)] # rq.body
                                     THEN {rq.offset} ELSE {}),
                                 late |-> @.late \/ ncombine[up._id] >= 1,
                                 acked |-> @.acked \cup
                                    (IF AllUploaded(rq.offset, rq.body, rq.length)
                                     THEN {} ELSE {Staged(rq)})]]
               /\ IF AllUploaded(rq.offset, rq.body, rq.length)
                  THEN /\ req' = [req EXCEPT ![r] = [rq EXCEPT !.pc = "c_find"]]
                       /\ ncombine' = [ncombine EXCEPT ![up._id] = @ + 1]
                  ELSE /\ Respond(r, rq, Returned(rq.kind))
                       /\ UNCHANGED ncombine
       IN IF up = NoUpload
          THEN /\ Fail(r, rq0)
               /\ UNCHANGED <<fsVars, histVars>>
          ELSE /\ sent' = [sent EXCEPT ![up._id] = @ \cup
                              {[off |-> rq.offset, data |-> rq.body, len |-> rq.length]}]
               /\ nsent' = [nsent EXCEPT ![up._id] = @ + 1]
               /\ UNCHANGED <<finals, completed>>
               /\ IF cd \in DOMAIN dirs
                  THEN go(dirs) /\ UNCHANGED roots
                  ELSE IF rq.kind = "chunkHelper"
                  THEN Fail(r, rq) /\ UNCHANGED <<roots, dirs, ncombine, written>>
                  ELSE /\ roots' = roots \cup {cd[1]}
                       /\ \E mkdirFirst \in BOOLEAN :
                            IF mkdirFirst
                            THEN go(made)
                            ELSE /\ Fail(r, rq)
                                 /\ dirs' = made
                                 /\ UNCHANGED <<ncombine, written>>
    /\ UNCHANGED <<authVars, aliased, db, nextId, ops>>

\* ---- combineChunks ----

\* a file of a staging directory whose name does not start with `chunk_`, as
\* the `${chunkIndex}.part` that the multer storage of app.ts writes below
\* path.join(TEMP_DIR, uploadId); chunk files are named by their digits
PartFile == <<-1>>

\* file.startsWith('chunk_')
IsChunkFile(f) == f # PartFile

\* the order of two names as strings
RECURSIVE LexLess(_, _)
LexLess(a, b) ==
    IF a = <<>> THEN b # <<>>
    ELSE IF b = <<>> THEN FALSE
    ELSE IF a[1] # b[1] THEN a[1] < b[1]
    ELSE LexLess(Tail(a), Tail(b))

\* sort() without a comparator: the names in string order
RECURSIVE SortChunksLexical(_)
SortChunksLexical(S) ==
    IF S = {} THEN <<>>
    ELSE LET m == CHOOSE a \in S : \A b \in S \ {a} : LexLess(a, b)
         IN <<m>> \o SortChunksLexical(S \ {m})

\* sort((a, b) => parseInt(a.split('_')[1]) - parseInt(b.split('_')[1]))
RECURSIVE SortChunks(_)
SortChunks(S) ==
    IF S = {} THEN <<>>
    ELSE LET m == CHOOSE a \in S : \A b \in S : ParseInt(a) <= ParseInt(b)
         IN <<m>> \o SortChunks(S \ {m})

\* the end offset of the staged chunks taken in order from pos, -1 when a chunk
\* does not start where the one before it ended
RECURSIVE CoverEnd(_, _, _)
CoverEnd(names, files, pos) ==
    IF names = <<>> THEN pos
    ELSE IF ParseInt(Head(names)) # pos THEN -1
    ELSE CoverEnd(Tail(names), files, pos + Len(files[Head(names)]))

\* the staged chunks cover [0, size) with no gap and no overlap
Covers(files, size) ==
    CoverEnd(SortChunks({f \in DOMAIN files : IsChunkFile(f)}), files, 0) = size

RemoveKey(f, k) == [x \in DOMAIN f \ {k} |-> f[x]]

\* `await Upload.findOne({ file_name: uniqueId })` resolves
CombineFind(r) ==
    /\ At(r, {"chunkLegacy", "chunkHelper"}, "c_find")
    /\ LET up == FindOne(ByName(req[r].upload.file_name))
       IN IF up = NoUpload
          THEN Fail(r, req[r])
          ELSE req' = [req EXCEPT ![r] = [@ EXCEPT !.cupload = up, !.pc = "c_list"]]
    /\ UNCHANGED <<authVars, aliased, fsVars, db, nextId, ops, histVars>>

\* fs.ensureDir(UPLOAD_DIR) resolves; readdirSync, filter, sort and
\* createWriteStream(finalFilePath), up to the first `await fs.readFile`
CombineList(r) ==
    /\ At(r, {"chunkLegacy", "chunkHelper"}, "c_list")
    /\ LET rq == req[r]
           cd == rq.chunkDir
       IN IF cd \notin DOMAIN dirs
          THEN Fail(r, rq)
          ELSE LET files == SortChunks({f \in DOMAIN dirs[cd] : IsChunkFile(f)})
               IN req' = [req EXCEPT ![r] =
                    [rq EXCEPT !.chunkFiles = files,
                               !.covered = Covers(dirs[cd], rq.cupload.file_size),
                               !.ws = [NoStream EXCEPT !.active = TRUE,
                                         !.path = <<rq.cupload.file_name,
                                                    rq.cupload.file_extension>>],
                               !.pc = IF files = <<>> THEN "c_finish" ELSE "c_read"]]
    /\ UNCHANGED <<authVars, aliased, fsVars, db, nextId, ops, histVars>>

\* `await fs.readFile(chunkPath)` settles; io is a fault of the storage layer.
\* When it resolves, writeStream.write(chunkData) queues the bytes and
\* fs.unlink is started
CombineRead(r) ==
    /\ At(r, {"chunkLegacy", "chunkHelper"}, "c_read")
    /\ \E io \in BOOLEAN :
        LET rq == req[r]
            cd == rq.chunkDir
            f == Head(rq.chunkFiles)
        IN IF io
           THEN Fail(r, [rq EXCEPT !.err = "EIO"])
           ELSE IF cd \in DOMAIN dirs /\ f \in DOMAIN dirs[cd]
           THEN req' = [req EXCEPT ![r] =
                    [rq EXCEPT !.ws.buf = Append(@, dirs[cd][f]), !.pc = "c_unlink"]]
           ELSE Fail(r, rq)
    /\ UNCHANGED <<authVars, aliased, fsVars, db, nextId, ops, histVars>>

\* `await fs.unlink(chunkPath)` resolves; after the last chunk writeStream.end()
CombineUnlink(r) ==
    /\ At(r, {"chunkLegacy", "chunkHelper"}, "c_unlink")
    /\ LET rq == req[r]
           cd == rq.chunkDir
           f == Head(rq.chunkFiles)
           rest == Tail(rq.chunkFiles)
       IN IF cd \in DOMAIN dirs /\ f \in DOMAIN dirs[cd]
          THEN /\ dirs' = [dirs EXCEPT ![cd] = RemoveKey(@, f)]
               /\ req' = [req EXCEPT ![r] =
                    [rq EXCEPT !.chunkFiles = rest,
                               !.pc = IF rest = <<>> THEN "c_finish" ELSE "c_read"]]
          ELSE /\ Fail(r, rq)
               /\ UNCHANGED dirs
    /\ UNCHANGED <<authVars, aliased, roots, finals, db, nextId, ops, histVars>>

\* the file after data is written at byte position pos; a hole reads as 0
WriteAt(content, pos, data) ==
    LET n == IF pos + Len(data) > Len(content) THEN pos + Len(data) ELSE Len(content)
    IN [i \in 1..n |-> IF i > pos /\ i <= pos + Len(data) THEN data[i - pos]
                       ELSE IF i <= Len(content) THEN content[i] ELSE 0]

\* the write stream works in the background: it opens finalFilePath with flag
\* 'w', which creates or truncates the file, and then writes the queued
\* buffers one after the other at its own position
StreamFlush(r) ==
    /\ req[r].ws.active
    /\ LET ws == req[r].ws
           fin(w) == IF req[r].pc = "done" THEN Settled(w) ELSE w
       IN IF ~ws.opened
          THEN /\ finals' = (ws.path :> <<>>) @@ finals
               /\ req' = [req EXCEPT ![r].ws = fin([ws EXCEPT !.opened = TRUE])]
          ELSE /\ ws.buf # <<>>
               /\ finals' = IF ws.detached THEN finals
                            ELSE [finals EXCEPT ![ws.path] = WriteAt(@, ws.pos, Head(ws.buf))]
               /\ req' = [req EXCEPT ![r].ws =
                            fin([ws EXCEPT !.pos = @ + Len(Head(ws.buf)), !.buf = Tail(@)])]
    /\ UNCHANGED <<authVars, aliased, roots, dirs, db, nextId, ops, histVars>>

\* 'finish': every queued buffer is written; upload.file_url is set and
\* `await upload.save()` started
CombineFinish(r) ==
    /\ At(r, {"chunkLegacy", "chunkHelper"}, "c_finish")
    /\ req[r].ws.opened
    /\ req[r].ws.buf = <<>>
    /\ req' = [req EXCEPT ![r] = [@ EXCEPT !.ws.active = FALSE, !.pc = "c_save"]]
    /\ UNCHANGED <<authVars, aliased, fsVars, db, nextId, ops, histVars>>

\* upload.file_url = `/uploads/${finalFileName}`
FinalUrl(up) == <<"/uploads", <<up.file_name, up.file_extension>>>>

\* upload.save() resolves: the document is updated by _id; saving a changed
\* document that is no longer in the collection throws, saving an unchanged
\* one sends nothing. Then fs.rm(chunkDir, {recursive: true}) is started.
CombineSave(r) ==
    /\ At(r, {"chunkLegacy", "chunkHelper"}, "c_save")
    /\ LET rq == req[r]
           up == rq.cupload
           at == ById(up._id)
       IN IF at = {} /\ up.file_url # FinalUrl(up)
          THEN Fail(r, rq) /\ UNCHANGED db
          ELSE /\ db' = [i \in 1..Len(db) |->
                            IF i \in at THEN [db[i] EXCEPT !.file_url = FinalUrl(up)]
                            ELSE db[i]]
               /\ req' = [req EXCEPT ![r].pc = "c_rm"]
    /\ UNCHANGED <<authVars, aliased, fsVars, nextId, ops, histVars>>

\* fs.rm(chunkDir, {recursive: true}) resolves: the directory goes with
\* whatever it holds by now; then fs.rmdir(parentDir) is started
CombineRm(r) ==
    /\ At(r, {"chunkLegacy", "chunkHelper"}, "c_rm")
    /\ LET cd == req[r].chunkDir
       IN IF cd \in DOMAIN dirs
          THEN /\ dirs' = RemoveKey(dirs, cd)
               /\ req' = [req EXCEPT ![r].pc = "c_rmdir"]
          ELSE /\ Fail(r, req[r])
               /\ UNCHANGED dirs
    /\ UNCHANGED <<authVars, aliased, roots, finals, db, nextId, ops, histVars>>

\* fs.rmdir(parentDir) resolves: an empty temp root is removed, any error is
\* ignored; combineChunks returns and the caller answers
CombineRmdir(r) ==
    /\ At(r, {"chunkLegacy", "chunkHelper"}, "c_rmdir")
    /\ LET root == req[r].chunkDir[1]
       IN roots' = IF \E k \in DOMAIN dirs : k[1] = root THEN roots ELSE roots \ {root}
    /\ completed' = completed \cup {req[r].cupload._id}
    /\ written' = [written EXCEPT ![req[r].upload._id].acked = @ \cup {Staged(req[r])}]
    /\ Respond(r, req[r], Returned(req[r].kind))
    /\ UNCHANGED <<authVars, aliased, dirs, finals, db, nextId, ops, ncombine, sent, nsent>>

\* ---- load and destroy (controllers/imageUploadController.ts) ----

\* GET: `await Upload.findOne({ file_path: id })`
Load(r, id) ==
    /\ Begin(r, "read", MaxReads)
    /\ LET up == FindOne(Matches(id))
           rq == [Idle EXCEPT !.kind = "load", !.id = id, !.upload = up]
       IN IF up = NoUpload
          THEN Respond(r, rq, "404")
          ELSE req' = [req EXCEPT ![r] = [rq EXCEPT !.pc = "l_exists"]]
    /\ UNCHANGED <<authVars, aliased, fsVars, db, nextId, histVars>>

\* `await fs.pathExists(filePath)` resolves; the file is streamed to the client
LoadServe(r) ==
    /\ At(r, {"load"}, "l_exists")
    /\ LET p == req[r].upload.file_path
       IN IF p \in DOMAIN finals
          THEN Respond(r, [req[r] EXCEPT !.served = finals[p]], "200")
          ELSE Respond(r, req[r], "404")
    /\ UNCHANGED <<authVars, aliased, fsVars, db, nextId, ops, histVars>>

\* DELETE: `await Upload.findOneAndDelete({ file_path: id })`
Destroy(r, id) ==
    /\ Begin(r, "read", MaxReads)
    /\ LET at == Matches(id)
           up == FindOne(at)
           rq == [Idle EXCEPT !.kind = "destroy", !.id = id, !.upload = up]
       IN IF up = NoUpload
          THEN Respond(r, rq, "404") /\ UNCHANGED db
          ELSE /\ db' = RemoveAt(db, Min(at))
               /\ req' = [req EXCEPT ![r] = [rq EXCEPT !.pc = "d_exists"]]
    /\ UNCHANGED <<authVars, aliased, fsVars, nextId, histVars>>

\* `await fs.pathExists(filePath)` resolves
DestroyExists(r) ==
    /\ At(r, {"destroy"}, "d_exists")
    /\ IF req[r].upload.file_path \in DOMAIN finals
       THEN req' = [req EXCEPT ![r].pc = "d_unlink"]
       ELSE Respond(r, req[r], "200")
    /\ UNCHANGED <<authVars, aliased, fsVars, db, nextId, ops, histVars>>

\* `await fs.unlink(filePath)` resolves; a stream that has the file open keeps
\* writing to the unlinked file, which no path names any more
DestroyUnlink(r) ==
    /\ At(r, {"destroy"}, "d_unlink")
    /\ LET p == req[r].upload.file_path
       IN IF p \in DOMAIN finals
          THEN /\ finals' = RemoveKey(finals, p)
               /\ req' = [q \in Req |->
                    IF q = r THEN Done(req[r], "200")
                    ELSE IF req[q].ws.opened /\ req[q].ws.path = p
                    THEN [req[q] EXCEPT !.ws.detached = TRUE]
                    ELSE req[q]]
          ELSE /\ Respond(r, req[r], "500")
               /\ UNCHANGED finals
    /\ UNCHANGED <<authVars, aliased, roots, dirs, db, nextId, ops, histVars>>

\* ---- destroy of the older controller ----

\* DELETE with the id as text body: `await Upload.findOne({ file_path: id })`
\* resolves; fs.existsSync(upload.file_path) and fs.unlinkSync test the bare
\* `${fileName}.${extension}`, a path relative to the working directory of the
\* process and not joined to UPLOAD_DIR: inCwd says whether UPLOAD_DIR is that
\* directory. Then `await upload.deleteOne()` is started.
DestroyLegacy(r, id) ==
    /\ Begin(r, "read", MaxReads)
    /\ LET up == FindOne(Matches(id))
           p == up.file_path
           rq == [Idle EXCEPT !.kind = "destroyLegacy", !.id = id, !.upload = up]
       IN IF up = NoUpload
          THEN Respond(r, rq, "404") /\ UNCHANGED finals
          ELSE \E inCwd \in BOOLEAN :
                IF inCwd /\ p \in DOMAIN finals
                THEN /\ finals' = RemoveKey(finals, p)
                     /\ req' = [q \in Req |->
                            IF q = r THEN [rq EXCEPT !.pc = "dl_delete"]
                            ELSE IF req[q].ws.opened /\ req[q].ws.path = p
                            THEN [req[q] EXCEPT !.ws.detached = TRUE]
                            ELSE req[q]]
                ELSE /\ UNCHANGED finals
                     /\ req' = [req EXCEPT ![r] = [rq EXCEPT !.pc = "dl_delete"]]
    /\ UNCHANGED <<authVars, aliased, roots, dirs, db, nextId, histVars>>

\* upload.deleteOne() resolves; res.status(200).json(...) answers, and the
\* handler, which does not return, goes on to res.status(404).json(...), which
\* throws as the response is sent, as does res.status(500).json(...) of the catch
DestroyLegacyDelete(r) ==
    /\ At(r, {"destroyLegacy"}, "dl_delete")
    /\ LET at == ById(req[r].upload._id)
       IN db' = IF at = {} THEN db ELSE RemoveAt(db, Min(at))
    /\ Respond(r, [req[r] EXCEPT !.res = <<"200", "404">>], "500")
    /\ UNCHANGED <<authVars, aliased, fsVars, nextId, ops, histVars>>

\* ---- the whole service ----

\* the session ids a client may name: those of well-formed sessions
Ids == {<<n, ExtBin>> : n \in Names}

Next ==
    \/ \E r \in Req, k \in {"store", "storeLegacy"} : Store(r, k, GoodMeta(MaxSize))
    \/ \E r \in Req : EnsureTemp(r)
    \/ \E r \in Req : Mkdir(r)
    \/ \E r \in Req : Save(r)
    \/ \E r \in Req, id \in Ids, h \in BOOLEAN : StoreChunk(r, id, h)
    \/ \E r \in Req, k \in {"chunkLegacy", "chunkHelper"}, id \in Ids, off \in Offsets,
          n \in Lengths :
            Chunk(r, k, id, off, MaxSize, Slice(1, off, n), TRUE)
    \/ \E r \in Req, k \in {"chunkLegacy", "chunkHelper"}, id \in Ids :
            Chunk(r, k, id, 0, MaxSize, <<>>, FALSE)
    \/ \E r \in Req : ChunkFind(r)
    \/ \E r \in Req : CombineFind(r)
    \/ \E r \in Req : CombineList(r)
    \/ \E r \in Req : CombineRead(r)
    \/ \E r \in Req : CombineUnlink(r)
    \/ \E r \in Req : StreamFlush(r)
    \/ \E r \in Req : CombineFinish(r)
    \/ \E r \in Req : CombineSave(r)
    \/ \E r \in Req : CombineRm(r)
    \/ \E r \in Req : CombineRmdir(r)
    \/ \E r \in Req, id \in Ids : Load(r, id)
    \/ \E r \in Req : LoadServe(r)
    \/ \E r \in Req, id \in Ids : Destroy(r, id)
    \/ \E r \in Req : DestroyExists(r)
    \/ \E r \in Req : DestroyUnlink(r)
    \/ \E r \in Req, id \in Ids : DestroyLegacy(r, id)
    \/ \E r \in Req : DestroyLegacyDelete(r)

Spec == Init /\ [][Next]_vars

\* the steps of the handlers that were entered: the event loop runs every
\* callback that is ready, while no client is bound to send a request
Steps ==
    \/ \E r \in Req : EnsureTemp(r)
    \/ \E r \in Req : Mkdir(r)
    \/ \E r \in Req : Save(r)
    \/ \E r \in Req : ChunkFind(r)
    \/ \E r \in Req : CombineFind(r)
    \/ \E r \in Req : CombineList(r)
    \/ \E r \in Req : CombineRead(r)
    \/ \E r \in Req : CombineUnlink(r)
    \/ \E r \in Req : StreamFlush(r)
    \/ \E r \in Req : CombineFinish(r)
    \/ \E r \in Req : CombineSave(r)
    \/ \E r \in Req : CombineRm(r)
    \/ \E r \in Req : CombineRmdir(r)
    \/ \E r \in Req : LoadServe(r)
    \/ \E r \in Req : DestroyExists(r)
    \/ \E r \in Req : DestroyUnlink(r)
    \/ \E r \in Req : DestroyLegacyDelete(r)

\* the service with every entered handler running to its end
SpecLive == Init /\ [][Next]_vars /\ WF_vars(Steps)

\* ---- session creation alone ----

\* creation reads no path below __dirname
InitCreate == Init /\ ~aliased

NextCreate ==
    \/ \E r \in Req, k \in {"store", "storeLegacy"}, m \in {GoodMeta(1)} \cup BadMetas :
            Store(r, k, m)
    \/ \E r \in Req : EnsureTemp(r)
    \/ \E r \in Req : Mkdir(r)
    \/ \E r \in Req : Save(r)

SpecCreate == InitCreate /\ [][NextCreate]_vars

\* ---- ingestion and reassembly of one session ----

\* the two files a client may upload; they differ in every byte
Versions == {1, 2}

\* the record of a session created by store with the name 1
FirstUpload ==
    [_id |-> 1, file_name |-> 1, file_original_name |-> "photo",
     file_extension |-> ExtBin, file_size |-> MaxSize,
     file_mime_type |-> "image/png", file_path |-> <<1, ExtBin>>,
     file_url |-> <<"/uploads", <<1, ExtBin>>>>]

\* the state after one POST /upload was answered 201
InitIngest ==
    /\ AuthInit
    /\ aliased \in BOOLEAN
    /\ roots = {"TEMP_DIR"}
    /\ dirs = (ReservedDir(1) :> <<>>)
    /\ finals = <<>>
    /\ db = <<FirstUpload>>
    /\ nextId = 2
    /\ req = [r \in Req |->
                IF r = 1
                THEN Done([Idle EXCEPT !.kind = "store", !.attempt = 1, !.err = "ok",
                                       !.upload = FirstUpload], "201")
                ELSE Idle]
    /\ ops = [c \in {"store", "chunk", "read"} |-> IF c = "store" THEN 1 ELSE 0]
    /\ ncombine = [d \in DocIds |-> 0]
    /\ sent = [d \in DocIds |-> {}]
    /\ nsent = [d \in DocIds |-> 0]
    /\ completed = {}
    /\ written = [d \in DocIds |-> [last |-> <<>>, replaced |-> {}, late |-> FALSE, acked |-> {}]]

\* the byte ranges <<offset, length>> that lie within the declared size
Ranges == {rg \in Offsets \X Lengths : rg[1] + rg[2] <= MaxSize}

\* the steps of a PUT /upload/:id after its handler was entered
Ingestion ==
    \/ \E r \in Req : ChunkFind(r)
    \/ \E r \in Req : CombineFind(r)
    \/ \E r \in Req : CombineList(r)
    \/ \E r \in Req : CombineRead(r)
    \/ \E r \in Req : CombineUnlink(r)
    \/ \E r \in Req : StreamFlush(r)
    \/ \E r \in Req : CombineFinish(r)
    \/ \E r \in Req : CombineSave(r)
    \/ \E r \in Req : CombineRm(r)
    \/ \E r \in Req : CombineRmdir(r)

\* PUT /upload/:id for the session with a byte range of either file as body
\* and the declared size as Upload-Length
NextIngest ==
    \/ \E r \in Req, k \in {"chunkLegacy", "chunkHelper"}, rg \in Ranges, v \in Versions :
            Chunk(r, k, FirstUpload.file_path, rg[1], MaxSize,
                  Slice(v, rg[1], rg[2]), TRUE)
    \/ Ingestion

SpecIngest == InitIngest /\ [][NextIngest]_vars

\* PUT /upload/:id for the session with a byte range of one file as body and
\* any Upload-Length header
NextTrigger ==
    \/ \E r \in Req, k \in {"chunkLegacy", "chunkHelper"}, rg \in Ranges, len \in Lengths :
            Chunk(r, k, FirstUpload.file_path, rg[1], len,
                  Slice(1, rg[1], rg[2]), TRUE)
    \/ Ingestion

SpecTrigger == InitIngest /\ [][NextTrigger]_vars

\* ---- reassembly of a session with chunks staged at large offsets ----

\* offsets of chunks staged before: their names in string order are not in
\* numeric order
SortOffsets == {2, 10, 11}

\* the Upload-Length header those chunks came with, beyond all of them
SortLength == 13

\* the state after one POST /upload was answered 201, PUTs staged one byte at
\* each offset of S and, if part, a foreign file lies in the directory
InitSort ==
    /\ AuthInit
    /\ aliased \in BOOLEAN
    /\ roots = {"TEMP_DIR", Phys("DIRNAME_TEMP_DIR")}
    /\ \E S \in SUBSET SortOffsets, part \in BOOLEAN : \E data \in [S -> Bytes] :
        /\ dirs = (ChunkDirOf(1) :>
                     ([f \in {Digits(o) : o \in S} |-> <<data[ParseInt(f)]>>]
                      @@ (IF part THEN PartFile :> <<1>> ELSE <<>>)))
                  @@ (ReservedDir(1) :> <<>>)
        /\ sent = [d \in DocIds |->
                    IF d = 1
                    THEN {[off |-> o, data |-> <<data[o]>>, len |-> SortLength] : o \in S}
                    ELSE {}]
        /\ nsent = [d \in DocIds |-> IF d = 1 THEN Cardinality(S) ELSE 0]
        /\ written = [d \in DocIds |->
                       [last |-> IF d = 1 THEN [o \in S |-> <<data[o]>>] ELSE <<>>,
                        replaced |-> {}, late |-> FALSE,
                        acked |-> IF d = 1
                                  THEN {[off |-> o, data |-> <<data[o]>>] : o \in S}
                                  ELSE {}]]
    /\ finals = <<>>
    /\ db = <<FirstUpload>>
    /\ nextId = 2
    /\ req = [r \in Req |->
                IF r = 1
                THEN Done([Idle EXCEPT !.kind = "store", !.attempt = 1, !.err = "ok",
                                       !.upload = FirstUpload], "201")
                ELSE Idle]
    /\ ops = [c \in {"store", "chunk", "read"} |->
                IF c = "store" THEN 1 ELSE IF c = "chunk" THEN MaxChunks - 1 ELSE 0]
    /\ ncombine = [d \in DocIds |-> 0]
    /\ completed = {}

\* one more PUT /upload/:id for the session, and its steps
NextSort ==
    \/ \E r \in Req, k \in {"chunkLegacy", "chunkHelper"}, rg \in Ranges :
            Chunk(r, k, FirstUpload.file_path, rg[1], MaxSize,
                  Slice(1, rg[1], rg[2]), TRUE)
    \/ Ingestion

SpecSort == InitSort /\ [][NextSort]_vars

\* ---- callAuthService and the middlewares ----

\* `${endpoint}:${token}:${body ? JSON.stringify(body) : ''}`
cacheKey(endpoint, token, body) == endpoint \o <<":">> \o token \o <<":">> \o body

\* a test that serves an entry at the instant it expires
FreshAtExpiry(entry, t) == entry.expiresAt >= t

\* cached.expiresAt > Date.now()
Fresh(entry, t) == entry.expiresAt > t

\* entry.expiresAt <= now of cleanCache
Expired(entry, t) == entry.expiresAt <= t

\* a test that accepts every scheme
AnyScheme(sch) == TRUE

\* /^Bearer$/i.test(scheme)
BearerScheme(sch) == sch \in {"Bearer", "bearer"}

\* getTokenFromHeader: NoToken stands for its two throws
getTokenFromHeader(h) ==
    IF h = <<>> THEN NoToken
    ELSE IF Len(h) < 2 \/ ~BearerScheme(h[1]) THEN NoToken
    ELSE h[2]

EndpointOf(kind) ==
    IF kind = "authorizePermission" THEN AuthorizePermissionEndpoint
    ELSE VerifyTokenEndpoint

BodyOf(kind) == IF kind = "authorizePermission" THEN PermissionBody ELSE NoBody

\* the key under which the call of an invocation is cached
KeyOf(rq) == cacheKey(EndpointOf(rq.kind), rq.used, BodyOf(rq.kind))

\* the error response of a middleware: 401 of authenticate, 403 of the others
Rejected(rq) ==
    [rq EXCEPT !.pc = "done", !.used = NoToken,
               !.res = Append(@, IF rq.kind = "authenticate" THEN "401" ELSE "403")]

\* next()
Passed(rq) == [rq EXCEPT !.pc = "done", !.used = NoToken, !.nexts = @ + 1]

\* the middleware from the point where callAuthService has returned data
Continue(rq, data) ==
    LET g == [rq EXCEPT !.got = data]
    IN CASE rq.kind = "authenticate" ->
                IF data.user = NoUser THEN Rejected(g)
                ELSE Passed([g EXCEPT !.user = data.user, !.token = g.used])
         [] rq.kind = "authorizeRole" ->
                IF data.user = NoUser \/ data.user.role # RequiredRole
                THEN Rejected(g)
                ELSE Passed([g EXCEPT !.user = IF @ # NoUser THEN @ ELSE data.user])
         [] OTHER ->
                IF data.hasPermission # "true" THEN Rejected(g) ELSE Passed(g)

\* authenticate: getTokenFromHeader(req); the others:
\* req.token || getTokenFromHeader(req)
TokenFor(kind, h, t) ==
    IF kind # "authenticate" /\ t # NoToken THEN t ELSE getTokenFromHeader(h)

\* a middleware is entered with the header words h, req.user u and req.token t,
\* and runs to its first pending await: the fetch of callAuthService, unless
\* the token is missing, the role of req.user suffices or the cache answers
Enter(m, kind, h, u, t) ==
    /\ mw[m].pc \in {"idle", "done"}
    /\ \A q \in Mw : q < m => mw[q].pc = "fetch"
    /\ nauth < MaxAuth
    /\ nauth' = nauth + 1
    /\ LET tok == TokenFor(kind, h, t)
           rq == [MwIdle EXCEPT !.kind = kind, !.user = u, !.token = t, !.used = tok]
       IN mw' = [mw EXCEPT ![m] =
                    IF tok = NoToken THEN Rejected(rq)
                    ELSE IF kind = "authorizeRole" /\ u.role = RequiredRole
                    THEN Passed(rq)
                    ELSE IF /\ KeyOf(rq) \in DOMAIN API_CACHE
                            /\ Fresh(API_CACHE[KeyOf(rq)], now)
                    THEN Continue([rq EXCEPT !.hit = TRUE], API_CACHE[KeyOf(rq)].data)
                    ELSE [rq EXCEPT !.pc = "fetch"]]
    /\ UNCHANGED <<API_CACHE, now, uploadVars>>

\* fetch resolves with response.ok and response.json() resolves with data: the
\* response is cached and handed to the middleware; args records the arguments
\* of the call that stored the entry
FetchOk(m, data) ==
    /\ mw[m].pc = "fetch"
    /\ API_CACHE' = (KeyOf(mw[m]) :>
                        [data |-> data, expiresAt |-> now + CACHE_TTL_MS,
                         args |-> <<EndpointOf(mw[m].kind), mw[m].used,
                                    BodyOf(mw[m].kind)>>])
                    @@ API_CACHE
    /\ mw' = [mw EXCEPT ![m] = Continue(mw[m], data)]
    /\ UNCHANGED <<now, nauth, uploadVars>>

\* fetch rejects, response.ok is false or response.json() rejects: the catch
\* deletes the key and rethrows, and the catch of the middleware answers
FetchFail(m) ==
    /\ mw[m].pc = "fetch"
    /\ API_CACHE' = RemoveKey(API_CACHE, KeyOf(mw[m]))
    /\ mw' = [mw EXCEPT ![m] = Rejected([mw[m] EXCEPT !.threw = TRUE])]
    /\ UNCHANGED <<now, nauth, uploadVars>>

\* time passes
Tick(t) ==
    /\ now + t <= MaxClock * CACHE_TTL_MS
    /\ now' = now + t
    /\ UNCHANGED <<API_CACHE, mw, nauth, uploadVars>>

\* cleanCache, run by the interval timer
cleanCache ==
    /\ API_CACHE' = [k \in {k \in DOMAIN API_CACHE : ~Expired(API_CACHE[k], now)}
                        |-> API_CACHE[k]]
    /\ UNCHANGED <<now, mw, nauth, uploadVars>>

NextAuth ==
    \/ \E m \in Mw, h \in AuthHeaders : Enter(m, "authenticate", h, NoUser, NoToken)
    \/ \E m \in Mw, h \in AuthHeaders, u \in Users \cup {NoUser},
          t \in ReqTokens : Enter(m, "authorizeRole", h, u, t)
    \/ \E m \in Mw, h \in AuthHeaders, t \in ReqTokens :
            Enter(m, "authorizePermission", h, NoUser, t)
    \/ \E m \in Mw, data \in VerifyAnswers :
            mw[m].kind # "authorizePermission" /\ FetchOk(m, data)
    \/ \E m \in Mw, data \in PermissionAnswers :
            mw[m].kind = "authorizePermission" /\ FetchOk(m, data)
    \/ \E m \in Mw : FetchFail(m)
    \/ \E t \in Ticks : Tick(t)
    \/ cleanCache

\* the upload service at rest
InitAuth == Init /\ ~aliased

SpecAuth == InitAuth /\ [][NextAuth]_vars

\* ---- the claims ----

StoreKinds == {"store", "storeLegacy"}
ChunkKinds == {"chunkLegacy", "chunkHelper"}
Last(q) == q[Len(q)]

\* request r answers in this step
Answers(r) ==
    /\ req'[r].pc = "done"
    /\ req'[r] # req[r]
    /\ req[r].pc # "done" \/ ops' # ops

\* the steps of combineChunks after the staging directory has been listed
Listed == {"c_read", "c_unlink", "c_finish", "c_save", "c_rm", "c_rmdir"}

\* C1: combineChunks is invoked at most once for every session, whatever the
\* interleaving of the ingestion requests
C1_AtMostOnceReassembly == \A d \in DocIds : ncombine[d] <= 1

\* no request is in flight and no write stream has work left
Quiescent == \A r \in Req : Free(r)

\* the chunks sent for a session of size n: each sent once, all with the
\* declared size as Upload-Length, their ranges covering [0, n) exactly once
ExactCover(d, n) ==
    /\ nsent[d] = Cardinality(sent[d])
    /\ \A c \in sent[d] : c.len = n /\ c.off + Len(c.data) <= n
    /\ \A pos \in 0..(n - 1) :
         Cardinality({c \in sent[d] : c.off <= pos /\ pos < c.off + Len(c.data)}) = 1

\* the concatenation of the chunks sent for a session in ascending offset order
InOffsetOrder(d, n) ==
    [i \in 1..n |->
        LET c == CHOOSE c \in sent[d] : c.off < i /\ i <= c.off + Len(c.data)
        IN c.data[i - c.off]]

\* C2: where the staging directory is the reserved one, once the chunks sent
\* for a session cover [0, declaredSize) exactly once and every request has
\* ended, the session is completed and its artifact is the concatenation of
\* the chunks in offset order, whatever the delivery order was
C2_OutOfOrderCompleteness ==
    \A i \in 1..Len(db) :
        (aliased /\ Quiescent /\ ExactCover(db[i]._id, db[i].file_size))
        => /\ db[i]._id \in completed
           /\ db[i].file_path \in DOMAIN finals
           /\ finals[db[i].file_path] = InOffsetOrder(db[i]._id, db[i].file_size)

\* C3: a reassembly that listed staged chunks with a gap, an overlap or a
\* short final range does not return normally, and no artifact exists under
\* the final path of a session that was not completed before
C3_CoverageRejection ==
    \A r \in Req :
        (req[r].kind \in ChunkKinds /\ ~req[r].covered)
        => /\ ~(req[r].pc = "done" /\ Last(req[r].res) \in {"200", "true"})
           /\ (req[r].pc \in Listed /\ req[r].cupload._id \notin completed)
              => req[r].ws.path \notin DOMAIN finals

\* C4: load never serves an artifact shorter than the declared size
C4_NoPartialVisibility ==
    \A r \in Req :
        (req[r].kind = "load" /\ req[r].pc = "done" /\ Last(req[r].res) = "200")
        => Len(req[r].served) >= req[r].upload.file_size

\* the chunk files of every staging directory are what they were
StagingUnchanged ==
    \A k \in DOMAIN dirs' :
        dirs'[k] = <<>> \/ (k \in DOMAIN dirs /\ dirs'[k] = dirs[k])

\* C5: an ingest whose offset + length exceeds the declared size of its session
\* is rejected and writes nothing to the staging area
C5_OutOfRangeRejected ==
    [][\A r \in Req :
        LET up == FindOne(Matches(req[r].id))
        IN (/\ At(r, ChunkKinds, "find")
            /\ req'[r].pc # "find"
            /\ up # NoUpload
            /\ req[r].offset + Len(req[r].body) > up.file_size)
           => /\ req'[r].pc = "done"
              /\ Last(req'[r].res) \in {"500", "throw"}
              /\ StagingUnchanged]_vars

\* C6: an ingest on a session whose reassembly has completed is rejected and
\* does not run reassembly again
C6_IngestAfterCompletion ==
    \A r \in Req :
        (req[r].kind \in ChunkKinds /\ req[r].sawCompleted)
        => req[r].pc = "done" /\ Last(req[r].res) \in {"500", "throw"}

\* C7: an ingest for an id without a session record is answered 404 (the
\* helper throws its not-found error) and changes no directory, no record and
\* no artifact
C7_UnknownSessionNotFound ==
    [][\A r \in Req :
        LET routed == /\ Answers(r)
                      /\ req'[r].kind = "chunk"
                      /\ Last(req'[r].res) # "400"
            looked == At(r, ChunkKinds, "find") /\ req'[r].pc # "find"
        IN ((routed \/ looked) /\ Matches(req'[r].id) = {})
           => /\ req'[r].pc = "done"
              /\ Last(req'[r].res) =
                    (IF req'[r].kind = "chunkHelper" THEN "throw" ELSE "404")
              /\ UNCHANGED <<roots, dirs, finals, db>>]_vars

\* the state part of C8
C8_Attempts ==
    \A r \in Req :
        req[r].kind \in StoreKinds
        => /\ req[r].attempt <= 5
           /\ req[r].pc = "mkdir"
              => req[r].attempt < 5 /\ req[r].err \in {"none", "EEXIST"}
           /\ req[r].pc = "save"
              => /\ req[r].err = "ok"
                 /\ ReservedDir(req[r].folderName) \in DOMAIN dirs
           /\ (req[r].pc = "done" /\ req[r].attempt > 0 /\ req[r].err # "ok")
              => /\ req[r].res = <<"500">>
                 /\ req[r].upload = NoUpload
                 /\ req[r].err = "EEXIST" => req[r].attempt = 5

\* the step part of C8
C8_Step ==
    \A r \in Req :
        /\ (At(r, StoreKinds, "mkdir") /\ req'[r] # req[r])
           => /\ req'[r].attempt = req[r].attempt + 1
              /\ req'[r].pc = "save" <=> req'[r].err = "ok"
              /\ req'[r].pc = "save"
                 => /\ ReservedDir(req'[r].folderName) \notin DOMAIN dirs
                    /\ ReservedDir(req'[r].folderName) \in DOMAIN dirs'
              /\ req'[r].pc = "mkdir" <=> (req'[r].err = "EEXIST" /\ req'[r].attempt < 5)
        /\ (Answers(r) /\ req'[r].kind \in StoreKinds /\ Last(req'[r].res) = "500")
           => db' = db

\* C8: startChunkProcess makes at most 5 reservation attempts, each one more
\* than the one before; it goes on only after a directory-already-exists
\* collision, returns the name whose directory it created, fails at once on
\* any other error and fails after 5 collisions; a failed creation answers
\* 500 and persists no record
C8_BoundedReservation == []C8_Attempts /\ [][C8_Step]_vars

\* all five attempts of a creation collided and it failed
C8_Witness ==
    \E r \in Req :
        /\ req[r].kind \in StoreKinds
        /\ req[r].pc = "done"
        /\ req[r].attempt = 5
        /\ req[r].err = "EEXIST"
        /\ req[r].res = <<"500">>

\* C9: no two session records share a storage name, hence none share a final
\* artifact path
C9_UniqueStorageName ==
    \A i, j \in 1..Len(db) : i # j => db[i].file_name # db[j].file_name

\* the metadata a record was created from
MetaOf(up) ==
    [file_name |-> up.file_original_name, file_extension |-> up.file_extension,
     file_size |-> up.file_size, file_mime_type |-> up.file_mime_type]

\* C10: no staging directory is reserved for a creation request with rejected
\* metadata, and no record is made of rejected metadata
C10_ValidationFirst ==
    /\ \A r \in Req :
        (req[r].kind \in StoreKinds /\ req[r].pc = "save")
        => uploadMetadataSchema(req[r].meta)
    /\ \A i \in 1..Len(db) : uploadMetadataSchema(MetaOf(db[i]))

\* the staging directory holds at most one chunk file for an offset
C11_OneFilePerOffset ==
    \A k \in DOMAIN dirs, off \in Offsets :
        Cardinality({f \in DOMAIN dirs[k] : ParseInt(f) = off}) <= 1

\* the only chunk sent for session d is the whole file at offset 0, and it was
\* sent more than once, every time before the session was completed
WholeFileResent(d, n) ==
    /\ \E c \in sent[d] : sent[d] = {c} /\ c.off = 0 /\ Len(c.data) = n /\ c.len = n
    /\ nsent[d] > 1
    /\ \A r \in Req :
        (req[r].kind \in ChunkKinds /\ req[r].upload._id = d) => ~req[r].sawCompleted

\* C11: resending an identical chunk at an offset already received, before
\* completion, leaves the bytes and the length of the final artifact what the
\* chunk sent once gives (here: the whole file sent as one chunk, so that the
\* order of delivery plays no role), and a staging directory never holds two
\* chunk files for one offset
C11_DuplicateOffsetIdempotence ==
    /\ C11_OneFilePerOffset
    /\ \A i \in 1..Len(db) :
        (/\ Quiescent
         /\ db[i]._id \in completed
         /\ WholeFileResent(db[i]._id, db[i].file_size))
        => /\ db[i].file_path \in DOMAIN finals
           /\ finals[db[i].file_path] = InOffsetOrder(db[i]._id, db[i].file_size)

\* the payloads of last, concatenated in ascending order of the offsets in S
RECURSIVE LatestInOrder(_, _)
LatestInOrder(last, S) ==
    IF S = {} THEN <<>>
    ELSE last[Min(S)] \o LatestInOrder(last, S \ {Min(S)})

\* the staging directory of a record holds, per offset, the payload written last
StagedIsLatest(up) ==
    LET cd == ChunkDirOf(up.file_name)
        last == written[up._id].last
        files == IF cd \in DOMAIN dirs THEN dirs[cd] ELSE <<>>
    IN /\ \A f \in DOMAIN files : ParseInt(f) \in DOMAIN last
       /\ \A off \in DOMAIN last :
            Digits(off) \in DOMAIN files /\ files[Digits(off)] = last[off]

\* C12: of the payloads ingested at one offset before reassembly is invoked,
\* the staging directory holds the one written last and nothing of an earlier
\* one, and the artifact of the completed session is made of the payloads
\* written last, in ascending order of their offsets
C12_LastWriteWins ==
    \A i \in 1..Len(db) :
        LET d == db[i]._id
        IN /\ ncombine[d] = 0 => StagedIsLatest(db[i])
           /\ (d \in completed /\ ~written[d].late)
              => /\ db[i].file_path \in DOMAIN finals
                 /\ finals[db[i].file_path] =
                        LatestInOrder(written[d].last, DOMAIN written[d].last)

\* a session completed whose artifact holds the second of two different
\* payloads written at one offset
C12_Witness ==
    \E i \in 1..Len(db) :
        LET d == db[i]._id
        IN /\ d \in completed
           /\ ~written[d].late
           /\ written[d].replaced # {}
           /\ db[i].file_path \in DOMAIN finals
           /\ finals[db[i].file_path] =
                  LatestInOrder(written[d].last, DOMAIN written[d].last)

\* C13: a delete does not race with the reassembly of its session: once a
\* delete has answered 200, the session has no record and, as long as no other
\* session owns the path, no file exists under its final path (a reassembly in
\* flight neither recreates nor leaves behind the artifact)
C13_DeleteExcludesReassembly ==
    \A r \in Req :
        (/\ req[r].kind = "destroy"
         /\ req[r].pc = "done"
         /\ Last(req[r].res) = "200"
         /\ Matches(req[r].upload.file_path) = {})
        => /\ ById(req[r].upload._id) = {}
           /\ req[r].upload.file_path \notin DOMAIN finals

DestroyKinds == {"destroy", "destroyLegacy"}

\* after this step no ingest of the record up is in flight and no write stream
\* has the final path of up open or yet to open
NoIngestInFlight(up) ==
    \A q \in Req :
        /\ (req'[q].kind \in ChunkKinds /\ req'[q].upload._id = up._id)
           => req'[q].pc = "done"
        /\ ~(req'[q].ws.active /\ req'[q].ws.path = up.file_path)

\* C14: a delete of an unknown session answers 404 and changes no record and
\* no file; once a delete of an existing session answers 200, the record is
\* gone and, where no ingest of the session is in flight and no other session
\* owns the path, so is the file under its final path; a load of a session
\* without record answers 404
C14_DeleteRemovesBoth ==
    [][\A r \in Req :
        /\ (Answers(r) /\ req'[r].kind \in DestroyKinds)
           => IF req'[r].upload = NoUpload
              THEN /\ req'[r].res = <<"404">>
                   /\ UNCHANGED <<db, roots, dirs, finals>>
              ELSE Head(req'[r].res) = "200"
                   => /\ \A i \in 1..Len(db') : db'[i]._id # req'[r].upload._id
                      /\ (/\ NoIngestInFlight(req'[r].upload)
                          /\ \A i \in 1..Len(db') :
                              db'[i].file_path # req'[r].upload.file_path)
                         => req'[r].upload.file_path \notin DOMAIN finals'
        /\ (Answers(r) /\ req'[r].kind = "load" /\ req'[r].upload = NoUpload)
           => req'[r].res = <<"404">>]_vars

\* C15: where the staging directory is the reserved one, no other record has
\* its storage name and no delete has looked it up, a completed session has
\* its final artifact and has no staging directory (hence no staged chunk),
\* in every state from its completion on
C15_CompletedStaysClean ==
    \A i \in 1..Len(db) :
        (/\ aliased
         /\ db[i]._id \in completed
         /\ ByName(db[i].file_name) = {i}
         /\ \A q \in Req :
              req[q].kind \in DestroyKinds => req[q].upload._id # db[i]._id)
        => /\ db[i].file_path \in DOMAIN finals
           /\ ReservedDir(db[i].file_name) \notin DOMAIN dirs
           /\ ChunkDirOf(db[i].file_name) \notin DOMAIN dirs

\* C16: when fs.readFile fails while the only reassembly of a session streams
\* its chunks, the ingest fails and no file, complete or partial, is visible
\* under the final path of the session
C16_FailedReassemblyHidden ==
    \A r \in Req :
        (/\ req[r].kind \in ChunkKinds
         /\ req[r].pc = "done"
         /\ req[r].err = "EIO"
         /\ ncombine[req[r].cupload._id] = 1)
        => /\ Last(req[r].res) \in {"500", "throw"}
           /\ req[r].ws.path \notin DOMAIN finals

\* the steps of an ingest after its chunk was staged
Combining == {"c_find", "c_list"} \cup Listed

\* C17: chunk files exist only in directories below the temp root in which
\* startChunkProcess reserves, and the directory an ingest writes to and its
\* reassembly reads from is the directory reserved for the session
C17_SameStagingDirectory ==
    /\ \A k \in DOMAIN dirs : dirs[k] # <<>> => k[1] = "TEMP_DIR"
    /\ \A r \in Req :
        (req[r].kind \in ChunkKinds /\ req[r].pc \in Combining)
        => req[r].chunkDir = ReservedDir(req[r].upload.file_name)

\* the record with _id d, NoUpload when the collection has none
Session(d) == FindOne(ById(d))

\* C18: a session that has a record and is not completed is, unless it gets
\* completed or deleted, eventually released: its reserved staging directory
\* is removed (time is abstracted: "longer than maxAge" reads "eventually")
C18_AbandonedReleased ==
    \A d \in DocIds :
        (Session(d) # NoUpload /\ d \notin completed)
        ~> \/ Session(d) = NoUpload
           \/ d \in completed
           \/ ReservedDir(Session(d).file_name) \notin DOMAIN dirs

\* C19: an ingest that has written its chunk invokes combineChunks exactly
\* when offset + body length reaches the file_size recorded for the session
C19_TriggerOnDeclaredSize ==
    [][\A r \in Req :
        LET up == FindOne(Matches(req[r].id))
            wrote == \/ req'[r].pc = "c_find"
                     \/ /\ req'[r].pc = "done"
                        /\ Last(req'[r].res) \in {"200", "true"}
        IN (/\ At(r, ChunkKinds, "find")
            /\ req'[r].pc # "find"
            /\ up # NoUpload
            /\ wrote)
           => /\ req'[r].pc = "c_find"
                 <=> req[r].offset + Len(req[r].body) >= up.file_size
              /\ ncombine'[up._id] = ncombine[up._id] +
                    (IF req[r].offset + Len(req[r].body) >= up.file_size
                     THEN 1 ELSE 0)]_vars

\* C20: combineChunks removes a chunk from staging only when its bytes are in
\* the destination file: the write stream holds no unwritten buffer but, while
\* fs.unlink of the chunk just read is pending, the buffer of that chunk
C20_DeleteAfterWrite ==
    \A r \in Req :
        (req[r].kind \in ChunkKinds /\ req[r].pc \in Listed)
        => Len(req[r].ws.buf) <= (IF req[r].pc = "c_unlink" THEN 1 ELSE 0)

\* the names of q ascend strictly in the numeric value of their offsets
NumericallyAscending(q) ==
    \A i, j \in 1..Len(q) : i < j => ParseInt(q[i]) < ParseInt(q[j])

\* the state part of C21
C21_Order ==
    /\ \A r \in Req :
        (req[r].kind \in ChunkKinds /\ req[r].pc \in Listed)
        => /\ NumericallyAscending(req[r].chunkFiles)
           /\ \A i \in 1..Len(req[r].chunkFiles) : IsChunkFile(req[r].chunkFiles[i])
    /\ \A i \in 1..Len(db) :
        (db[i]._id \in completed /\ ~written[db[i]._id].late)
        => /\ db[i].file_path \in DOMAIN finals
           /\ finals[db[i].file_path] =
                LatestInOrder(written[db[i]._id].last, DOMAIN written[db[i]._id].last)

\* the step part of C21: the listing takes the chunk files and no other file
C21_Step ==
    \A r \in Req :
        (At(r, ChunkKinds, "c_list") /\ req'[r].pc \in Listed)
        => /\ {req'[r].chunkFiles[i] : i \in 1..Len(req'[r].chunkFiles)} =
                {f \in DOMAIN dirs[req[r].chunkDir] : IsChunkFile(f)}
           /\ Len(req'[r].chunkFiles) =
                Cardinality({f \in DOMAIN dirs[req[r].chunkDir] : IsChunkFile(f)})

\* C21: combineChunks lists exactly the files named chunk_{offset}, orders them
\* by the numeric value of the offset (chunk_10 after chunk_2) and writes them
\* to the destination in that order, so that the artifact is the staged
\* payloads in ascending order of their offsets
C21_NumericChunkOrder == []C21_Order /\ [][C21_Step]_vars

\* a reassembly that listed chunk_2 before chunk_10 in a directory that also
\* holds a foreign file
C21_Witness ==
    \E r \in Req :
        /\ req[r].kind \in ChunkKinds
        /\ req[r].pc = "c_read"
        /\ \E i, j \in 1..Len(req[r].chunkFiles) :
            /\ i < j
            /\ req[r].chunkFiles[i] = Digits(2)
            /\ req[r].chunkFiles[j] = Digits(10)
        /\ req[r].chunkDir \in DOMAIN dirs
        /\ PartFile \in DOMAIN dirs[req[r].chunkDir]

\* request q is a creation past fs.ensureDir (it has no record yet) or an
\* ingest past its lookup, and works below the temp root
UsesRoot(q, root) ==
    \/ /\ req[q].kind \in StoreKinds
       /\ req[q].pc \in {"mkdir", "save"}
       /\ root = "TEMP_DIR"
    \/ /\ req[q].kind \in ChunkKinds
       /\ req[q].pc \in Combining
       /\ req[q].chunkDir[1] = root

\* C22: a step of the ingestion or reassembly of a session changes no staging
\* directory, no record and no artifact of a session with another storage
\* name, and removes no temp root below which another creation or ingestion
\* is in progress
C22_OtherSessionsUntouched ==
    [][\A r \in Req :
        (/\ req[r].kind \in ChunkKinds
         /\ ~Free(r)
         /\ req'[r] # req[r])
        => LET n == req'[r].upload.file_name
           IN /\ \A k \in DOMAIN dirs :
                    k[2] # n => k \in DOMAIN dirs' /\ dirs'[k] = dirs[k]
              /\ \A i \in 1..Len(db) :
                    db[i].file_name # n => i <= Len(db') /\ db'[i] = db[i]
              /\ \A f \in DOMAIN finals :
                    f[1] # n => f \in DOMAIN finals' /\ finals'[f] = finals[f]
              /\ \A root \in roots :
                    (\E q \in Req \ {r} :
                        UsesRoot(q, root) /\ req[q].upload.file_name # n)
                    => root \in roots']_vars

\* C23: a PUT /upload/:id that is answered with success reports in its body
\* the position offset + length of the payload it staged, whether the payload
\* came as a multipart file buffer or as the raw request body
C23_ReportsReceivedThrough ==
    [][\A r \in Req :
        (/\ req[r].kind \in {"chunk", "chunkLegacy"}
         /\ req[r].pc # "done"
         /\ req'[r].pc = "done"
         /\ Last(req'[r].res) = "200")
        => req'[r].reported = req[r].offset + Len(req[r].body)]_vars

\* the chunk lies in a staging directory of the session named n
InStaging(n, a) ==
    \E k \in DOMAIN dirs :
        /\ k[2] = n
        /\ Digits(a.off) \in DOMAIN dirs[k]
        /\ dirs[k][Digits(a.off)] = a.data

\* the file under path p holds the bytes of the chunk, at some position
InArtifact(p, a) ==
    /\ p \in DOMAIN finals
    /\ \E pos \in 0..(Len(finals[p]) - Len(a.data)) :
            SubSeq(finals[p], pos + 1, pos + Len(a.data)) = a.data

\* C24: a chunk whose ingestion returned success and that no later chunk
\* replaced at its offset is, whenever no ingestion of its session is in
\* flight, still in the staging directory of the session or part of its final
\* artifact, also when it was staged while a reassembly of the session had
\* already listed the directory
C24_AckedChunkKept ==
    \A i \in 1..Len(db) :
        \A a \in written[db[i]._id].acked :
            (/\ written[db[i]._id].last[a.off] = a.data
             /\ \A q \in Req : req[q].upload._id = db[i]._id => Free(q))
            => \/ InStaging(db[i].file_name, a)
               \/ InArtifact(db[i].file_path, a)

\* C25: when a POST /upload that reserved a storage name is answered, with
\* whatever outcome, the staging directory of that name exists if and only if
\* a record with that name is in the collection
C25_NoOrphanDirectory ==
    [][\A r \in Req :
        (At(r, StoreKinds, "save") /\ req'[r].pc = "done")
        => LET n == req[r].folderName
           IN ReservedDir(n) \in DOMAIN dirs'
              <=> \E i \in 1..Len(db') : db'[i].file_name = n]_vars

\* the requests that an express handler answers; processChunkUploads called
\* by itself returns to its caller
Handlers == {"store", "storeLegacy", "chunk", "chunkLegacy", "load", "destroy",
             "destroyLegacy"}

\* C26: a handler that has ended has called a sending method of the response
\* exactly once
C26_ExactlyOneResponse ==
    \A r \in Req :
        (req[r].kind \in Handlers /\ req[r].pc = "done") => Len(req[r].res) = 1

\* the arguments of the call an invocation makes to the auth service
CallOf(rq) == <<EndpointOf(rq.kind), rq.used, BodyOf(rq.kind)>>

\* the invocation has ended with next() and no response
Next1(rq) == rq.pc = "done" /\ rq.nexts = 1 /\ rq.res = <<>>

\* the invocation has ended with its error response and without next()
Refused(rq) ==
    /\ rq.pc = "done"
    /\ rq.nexts = 0
    /\ rq.res = <<IF rq.kind = "authenticate" THEN "401" ELSE "403">>

\* the step ends the invocation of slot m
Ends(m) ==
    /\ mw'[m].pc = "done"
    /\ \/ mw[m].pc = "fetch"
       \/ /\ nauth' # nauth
          /\ mw[m].pc # "fetch"
          /\ \A q \in Mw : q < m => mw[q].pc = "fetch"

AuthKinds == {"authenticate", "authorizeRole", "authorizePermission"}

\* C27: a middleware that ends has either called next() once and sent
\* nothing, or sent its error response (401 of authenticate, 403 of the
\* others) and not called next(). It goes on to the auth service or to next()
\* without a token of the request only with a token taken from a header of
\* two words or more whose first is Bearer in any case. authenticate calls
\* next() only with a user returned by the verification, authorizePermission
\* only with hasPermission true, and authorizeRole only when the user of the
\* request or the verified user has the required role
C27_NextOnlyWhenPositive ==
    [][\A m \in Mw :
        /\ Ends(m) => Next1(mw'[m]) \/ Refused(mw'[m])
        /\ \A k \in AuthKinds, h \in AuthHeaders, u \in Users \cup {NoUser},
              t \in ReqTokens :
                (/\ nauth' # nauth
                 /\ mw'[m].kind = k
                 /\ ~Refused(mw'[m])
                 /\ Enter(m, k, h, u, t)
                 /\ k = "authenticate" \/ t = NoToken)
                => /\ Len(h) >= 2
                   /\ h[1] \in {"Bearer", "bearer"}
                   /\ mw'[m].pc = "fetch" => mw'[m].used = h[2]
                   /\ (k = "authenticate" /\ Next1(mw'[m])) => mw'[m].token = h[2]
        /\ (Ends(m) /\ Next1(mw'[m]))
           => /\ mw'[m].kind = "authenticate"
                 => /\ mw'[m].got.user \in Users
                    /\ mw'[m].user = mw'[m].got.user
              /\ mw'[m].kind = "authorizePermission"
                 => mw'[m].got.hasPermission = "true"
              /\ mw'[m].kind = "authorizeRole"
                 => \/ mw'[m].user.role = RequiredRole
                    \/ mw'[m].got.user.role = RequiredRole]_vars

\* authorizeRole has passed a request on the role of the verified user, and
\* authenticate has refused one
C27_Witness ==
    /\ \E m \in Mw : /\ Next1(mw[m])
                      /\ mw[m].kind = "authorizeRole"
                      /\ mw[m].got.user.role = RequiredRole
    /\ \E m \in Mw : Refused(mw[m]) /\ mw[m].kind = "authenticate"

\* what is left of the cache when the entries at keys K are taken out
Without(K) == [k \in DOMAIN API_CACHE \ K |-> API_CACHE[k]]

\* C28: an invocation that is answered by the cache gets the data of an entry
\* that a call with its own endpoint, token and body stored and whose
\* expiresAt is later than now; a call that succeeds stores its response under
\* its key with expiresAt = now + 5000 and changes no other entry; a call that
\* fails leaves no entry under its key and changes no other entry; and
\* cleanCache removes the entries with expiresAt <= now and no others
C28_CacheTimeToLive ==
    [][/\ \A m \in Mw :
            /\ \A k \in AuthKinds, h \in AuthHeaders, u \in Users \cup {NoUser},
                  t \in ReqTokens :
                    (nauth' # nauth /\ mw'[m].hit /\ mw'[m].kind = k
                     /\ Enter(m, k, h, u, t))
                    => \E key \in DOMAIN API_CACHE :
                         /\ API_CACHE[key].args =
                                <<EndpointOf(k), TokenFor(k, h, t), BodyOf(k)>>
                         /\ API_CACHE[key].expiresAt > now
                         /\ API_CACHE[key].data = mw'[m].got
            /\ (mw[m].pc = "fetch" /\ mw'[m].pc = "done" /\ ~mw'[m].threw)
               => /\ KeyOf(mw[m]) \in DOMAIN API_CACHE'
                  /\ API_CACHE'[KeyOf(mw[m])].expiresAt = now + 5000
                  /\ API_CACHE'[KeyOf(mw[m])].data = mw'[m].got
                  /\ API_CACHE'[KeyOf(mw[m])].args = CallOf(mw[m])
                  /\ [k \in DOMAIN API_CACHE' \ {KeyOf(mw[m])} |-> API_CACHE'[k]]
                        = Without({KeyOf(mw[m])})
            /\ (mw[m].pc = "fetch" /\ mw'[m].pc = "done" /\ mw'[m].threw)
               => API_CACHE' = Without({KeyOf(mw[m])})
       /\ mw' = mw
          => API_CACHE' \in
                {API_CACHE,
                 Without({k \in DOMAIN API_CACHE : API_CACHE[k].expiresAt <= now})}]_vars

\* an invocation was answered by the cache, and the cache holds an entry that
\* has expired
C28_Witness ==
    /\ \E m \in Mw : mw[m].pc = "done" /\ mw[m].hit
    /\ \E k \in DOMAIN API_CACHE : API_CACHE[k].expiresAt <= now
====
